---------------------------- MODULE Spec2Model ----------------------------
(***************************************************************************)
(* Model of the dense layer of easynn-rs (src/src/layers/dense.rs).        *)
(*                                                                         *)
(* A Dense layer owns input_shape, output_shape, weight, bias and an       *)
(* activation.  Its four operations (forward_propagate, activate,          *)
(* backpropagate_delta, descend) are modelled as calls of one caller       *)
(* thread that forks workers over chunks of the buffers and joins them.    *)
(* Buffers are functions over 0..n-1 so that index arithmetic reads as in  *)
(* the source.  Numbers are exact integers.                                *)
(***************************************************************************)
EXTENDS Integers, Sequences, FiniteSets, TLC

(* ------------------------------ bounds --------------------------------- *)
MaxSize == 3
MaxThreads == 3
MaxDescends == 1

Rates == {2}
Activations == {"No", "Relu"}

(* ------------------------- tensor collaborator ------------------------- *)
RECURSIVE ShapeSize(_)
ShapeSize(s) == IF s = <<>> THEN 1 ELSE Head(s) * ShapeSize(Tail(s))

\* two shapes of equal size and different dimensions, and one of another size
Shapes == {<<2>>, <<1, 2>>, <<MaxSize>>}

\* Shape's == : value equality of the dimension lists
ShapeEq(a, b) == a = b

Len0(f) == Cardinality(DOMAIN f)

TensorNew(s, f) == [shape |-> s, flattened |-> f]

TensorZeros(s) == [shape |-> s, flattened |-> [x \in 0..(ShapeSize(s) - 1) |-> 0]]

\* buffers of length n: -1 everywhere, or 2 at one index and -1 elsewhere
Buffers(n) ==
    {[x \in 0..(n - 1) |-> -1]} \cup
    {[x \in 0..(n - 1) |-> IF x = h THEN 2 ELSE -1] : h \in 0..(n - 1)}

Tensors == UNION {{TensorNew(s, f) : f \in Buffers(ShapeSize(s))} : s \in Shapes}

NoTensor == [shape |-> <<>>, flattened |-> [x \in {} |-> 0]]

NoVec == [x \in {} |-> 0]

(* ----------------------- activation collaborator ----------------------- *)
ActCall(act, x) == IF act = "Relu" THEN (IF x > 0 THEN x ELSE 0) ELSE x

ActDiff(act, x) == IF act = "Relu" THEN (IF x > 0 THEN 1 ELSE 0) ELSE 1

(* ------------------------------ helpers -------------------------------- *)
Min(a, b) == IF a <= b THEN a ELSE b

\* slice::chunks(size) over a buffer of length len
NumChunks(len, size) == (len + size - 1) \div size

ChunkLen(len, size, i) == Min(size, len - i * size)


(* ------------------------------- state --------------------------------- *)
VARIABLES
    input_shape, output_shape, weight, bias, activation,  \* the Dense layer
    op,          \* operation in progress, "idle" when none
    pc,          \* position of the calling thread inside the operation
    input,       \* forward_propagate: input
    out_arg,     \* activate: output (the argument)
    delta,       \* backpropagate_delta, descend: delta
    a_lst,       \* backpropagate_delta, descend: a_lst
    activate,    \* forward_propagate: the activate flag
    sigma_lst,   \* backpropagate_delta: sigma_lst
    rate,        \* descend: rate
    threads,     \* num_cpus::get() of this call
    spawned,     \* number of workers spawned so far in the scope
    wk,          \* wk[i]: number of mults worker i has completed
    output,      \* forward_propagate: output.flattened
    act_vec,     \* activate: act_vec
    prod,        \* backpropagate_delta: prod
    live,        \* backpropagate_delta: slices of prod still to be reduced
    lst_delta,   \* backpropagate_delta: lst_delta.flattened
    pending,     \* indices a par_iter for_each has not visited yet
    result,      \* value returned by the last operation
    ndescend,    \* number of descend calls made
    weight0, bias0,  \* weight and bias at the start of the call
    wwrites, bwrites, \* writes to each weight / bias entry during the call
    args0,       \* the tensor arguments as they were passed
    layer0,      \* shapes and activation the layer was constructed with
    merges,      \* positions combined by the reduction so far, in order
    prod0,       \* prod as the workers of backpropagate_delta left it
    pairs,       \* <<s1, s2, end>> of every combination: slices [s1, s2) and [s2, end)
    held,        \* tensor the caller got from the activate call just returned
    chained,     \* the argument of this activate call is that tensor
    trail,       \* what the caller keeps of forward_propagate(x, false) and of
                 \* activate of its result, while the next call continues with them
    writers,     \* writers[x]: workers that wrote entry x of the buffer of this round
    readers      \* readers[x]: workers that read entry x of the buffer of this round

layer == <<input_shape, output_shape, activation>>
params == <<weight, bias>>
args == <<input, out_arg, delta, a_lst, activate, sigma_lst, rate, threads>>
locals == <<output, act_vec, prod, live, lst_delta, pending>>
tensors == <<input, out_arg, delta, a_lst>>
snap == <<weight0, bias0, args0, layer0>>
caller == <<held, chained, trail>>
access == <<writers, readers>>
reduction == <<prod0, pairs>>
hist == <<snap, wwrites, bwrites, merges, reduction, caller, access>>
vars == <<layer, params, op, pc, args, spawned, wk, locals, result, ndescend, hist>>

ilen == ShapeSize(input_shape)
olen == ShapeSize(output_shape)

Zeros(n) == [x \in 0..(n - 1) |-> 0]
Ones(n) == [x \in 0..(n - 1) |-> 1]

NoResult == [status |-> "none", shape |-> <<>>, flattened |-> NoVec]

\* the caller keeps nothing of earlier calls
NoTrail == [stage |-> 0, input |-> NoTensor, pre |-> NoVec, post |-> NoVec]
Err == [status |-> "ShapeMismatchError", shape |-> <<>>, flattened |-> NoVec]
Ok(s, f) == [status |-> "Ok", shape |-> s, flattened |-> f]

\* mutant: the weight buffer gets one entry per input unit only
DenseNewShortWeight(i_shape, o_shape, act) ==
    [input_shape |-> i_shape, output_shape |-> o_shape,
     weight |-> Ones(ShapeSize(i_shape)),
     bias |-> Ones(ShapeSize(o_shape)),
     activation |-> act]

\* Dense::new
DenseNew(i_shape, o_shape, act) ==
    [input_shape |-> i_shape, output_shape |-> o_shape,
     weight |-> Ones(ShapeSize(i_shape) * ShapeSize(o_shape)),
     bias |-> Ones(ShapeSize(o_shape)),
     activation |-> act]

Init ==
    /\ \E i_shape \in Shapes, o_shape \in Shapes, act \in Activations :
          LET l == DenseNew(i_shape, o_shape, act) IN
            /\ input_shape = l.input_shape
            /\ output_shape = l.output_shape
            /\ weight = l.weight
            /\ bias = l.bias
            /\ activation = l.activation
    /\ op = "idle" /\ pc = "idle"
    /\ input = NoTensor /\ out_arg = NoTensor /\ delta = NoTensor /\ a_lst = NoTensor
    /\ activate = FALSE /\ sigma_lst = "No" /\ rate = 0 /\ threads = 0
    /\ spawned = 0 /\ wk = NoVec
    /\ output = NoVec /\ act_vec = NoVec /\ prod = NoVec /\ live = <<>>
    /\ lst_delta = NoVec /\ pending = {}
    /\ result = NoResult
    /\ ndescend = 0
    /\ weight0 = weight /\ bias0 = bias
    /\ wwrites = Zeros(Len0(weight)) /\ bwrites = Zeros(Len0(bias))
    /\ args0 = tensors /\ layer0 = layer /\ merges = <<>>
    /\ prod0 = NoVec /\ pairs = <<>>
    /\ held = NoTensor /\ chained = FALSE /\ trail = NoTrail
    /\ writers = NoVec /\ readers = NoVec


(* ------------------------- call entry and return ----------------------- *)
\* state shared by every call entry: a fresh scope, fresh write counters
\* entries of the buffer the workers of operation o write: output, prod, weight
RoundBuffer(o) ==
    IF o = "forward" THEN 0..(ShapeSize(output_shape) - 1)
    ELSE IF o \in {"backprop", "descend"} THEN DOMAIN weight
    ELSE {}

\* worker i has accessed the entries xs
Record(acc, xs, i) == [x \in DOMAIN acc |-> IF x \in xs THEN acc[x] \cup {i} ELSE acc[x]]

Enter(o) ==
    /\ op = "idle"
    /\ writers' = [x \in RoundBuffer(o) |-> {}]
    /\ readers' = [x \in RoundBuffer(o) |-> {}]
    /\ op' = o
    /\ spawned' = 0 /\ wk' = NoVec
    /\ weight0' = weight /\ bias0' = bias
    /\ wwrites' = Zeros(Len0(weight)) /\ bwrites' = Zeros(Len0(bias))
    /\ merges' = <<>>
    /\ prod0' = NoVec /\ pairs' = <<>>
    /\ held' = NoTensor
    /\ IF o = "activate" THEN TRUE ELSE chained' = FALSE
    /\ UNCHANGED <<layer, layer0>>

\* the caller takes the result; the call's arguments and locals are dropped
Return ==
    /\ pc = "done"
    /\ op' = "idle" /\ pc' = "idle"
    /\ input' = NoTensor /\ out_arg' = NoTensor /\ delta' = NoTensor /\ a_lst' = NoTensor
    /\ activate' = FALSE /\ sigma_lst' = "No" /\ rate' = 0 /\ threads' = 0
    /\ spawned' = 0 /\ wk' = NoVec
    /\ output' = NoVec /\ act_vec' = NoVec /\ prod' = NoVec /\ live' = <<>>
    /\ lst_delta' = NoVec /\ pending' = {}
    /\ result' = NoResult
    /\ args0' = tensors' /\ merges' = <<>>
    /\ prod0' = NoVec /\ pairs' = <<>>
    /\ held' = IF op = "activate" /\ result.status = "Ok"
                 THEN TensorNew(result.shape, result.flattened)
                 ELSE NoTensor
    /\ chained' = FALSE
    /\ trail' = IF op = "forward" /\ result.status = "Ok" /\ ~activate
                  THEN [stage |-> 1, input |-> input, pre |-> result.flattened,
                        post |-> NoVec]
                ELSE IF op = "activate" /\ result.status = "Ok" /\ trail.stage = 1
                  THEN [trail EXCEPT !.stage = 2, !.post = result.flattened]
                ELSE NoTrail
    /\ writers' = NoVec /\ readers' = NoVec
    /\ UNCHANGED <<layer, params, ndescend, weight0, bias0, wwrites, bwrites, layer0>>

\* let mults_per_chunk = olen / threads + 1
MultsPerChunk(len, n) == len \div n + 1

\* for ... in a.zip(b): the shorter iterator ends the loop
Zip(na, nb) == Min(na, nb)

\* spawner.spawn(...) inside crossbeam::scope: one more worker starts
SpawnWorker ==
    /\ spawned' = spawned + 1
    /\ wk' = [c \in 0..spawned |-> IF c = spawned THEN 0 ELSE wk[c]]

\* mutant: the scope waits for one worker more than it spawns
AllDoneExtraWorker(n, len, size) ==
    /\ spawned = n + 1
    /\ \A c \in 0..(spawned - 1) : wk[c] = ChunkLen(len, size, c)

\* mutant: the scope ends as soon as every worker is spawned
AllDoneNoWait(n, len, size) == spawned = n

\* the end of the scope joins every spawned worker
AllDone(n, len, size) ==
    /\ spawned = n
    /\ \A c \in 0..(spawned - 1) : wk[c] = ChunkLen(len, size, c)

(* --------------------------- forward_propagate ------------------------- *)
ForwardShapeOk(inp) == ShapeEq(inp.shape, input_shape)

ForwardPropagate ==
    /\ Enter("forward")
    /\ \E inp \in Tensors, act \in BOOLEAN :
         /\ input' = inp /\ activate' = act
         /\ trail' = IF trail.stage = 2 /\ inp = trail.input /\ act
                       THEN trail ELSE NoTrail
         /\ IF ~ForwardShapeOk(inp)
              THEN /\ result' = Err /\ pc' = "done"
                   /\ output' = NoVec /\ threads' = 0
              ELSE /\ result' = NoResult /\ pc' = "scope"
                   /\ output' = TensorZeros(output_shape).flattened
                   /\ \E n \in 1..MaxThreads : threads' = n
    /\ UNCHANGED <<params, out_arg, delta, a_lst, sigma_lst, rate, act_vec, prod, live,
                   lst_delta, pending, ndescend>>
    /\ args0' = tensors'

FwdOlen == Len0(output)
FwdIlen == Len0(input.flattened)
FwdMults == MultsPerChunk(FwdOlen, threads)
\* mutant: the weight chunks are not scaled by the row length
FwdWChunkNoStride(m) == m

\* w_chunks = self.weight.chunks(mults_per_chunk * ilen)
FwdWChunk(m) == m * FwdIlen

\* o_chunks.zip(w_chunks)
FwdChunks ==
    Zip(NumChunks(FwdOlen, FwdMults), NumChunks(Len0(weight), FwdWChunk(FwdMults)))

ForwardSpawn ==
    /\ op = "forward" /\ pc = "scope"
    /\ spawned < FwdChunks
    /\ SpawnWorker
    /\ UNCHANGED <<layer, params, op, pc, args, locals, result, ndescend, hist>>

\* o += w * input.flattened[k] over slice_iter!(w_chk, ilen, j), k ascending
RECURSIVE FwdDot(_, _, _)
FwdDot(o, base, k) ==
    IF k = FwdIlen THEN o
    ELSE FwdDot(o + weight[base + k] * input.flattened[k], base, k + 1)

\* mutant: the activation is applied whatever the activate flag says
FwdMultAtAlwaysActivate(m, i, j) ==
    ActCall(activation, FwdDot(bias[i * m + j], i * FwdWChunk(m) + j * FwdIlen, 0))

\* mutant: the bias is added after the activation
FwdMultAtBiasAfter(m, i, j) ==
    LET o == FwdDot(0, i * FwdWChunk(m) + j * FwdIlen, 0)
    IN IF activate THEN ActCall(activation, o) + bias[i * m + j]
       ELSE o + bias[i * m + j]

\* mutant: bias is indexed by the position inside the chunk
FwdMultAtLocalBias(m, i, j) ==
    LET o == FwdDot(bias[j], i * FwdWChunk(m) + j * FwdIlen, 0)
    IN IF activate THEN ActCall(activation, o) ELSE o

\* body of the loop over o_chk for element j of chunk i, chunks of m mults
FwdMultAt(m, i, j) ==
    LET o == FwdDot(bias[i * m + j], i * FwdWChunk(m) + j * FwdIlen, 0)
    IN IF activate THEN ActCall(activation, o) ELSE o

FwdMult(i, j) == FwdMultAt(FwdMults, i, j)

\* index in output of element j of o_chk of chunk i
FwdOut(i, j) == i * FwdMults + j

\* the indexing of bias and of the weight chunk does not panic
FwdInBounds(i, j) ==
    /\ i * FwdMults + j < Len0(bias)
    /\ (j + 1) * FwdIlen <= ChunkLen(Len0(weight), FwdWChunk(FwdMults), i)

ForwardWorker(i) ==
    /\ op = "forward" /\ pc = "scope"
    /\ i \in 0..(spawned - 1)
    /\ wk[i] < ChunkLen(FwdOlen, FwdMults, i)
    /\ IF FwdInBounds(i, wk[i])
         THEN /\ output' = [output EXCEPT ![FwdOut(i, wk[i])] = FwdMult(i, wk[i])]
              /\ writers' = Record(writers, {FwdOut(i, wk[i])}, i)
              /\ readers' = Record(readers, {FwdOut(i, wk[i])}, i)
              /\ wk' = [wk EXCEPT ![i] = wk[i] + 1]
              /\ pc' = pc
         ELSE /\ pc' = "panic"
              /\ UNCHANGED <<output, wk, access>>
    /\ UNCHANGED <<layer, params, op, args, spawned, act_vec, prod, live, lst_delta,
                   pending, result, ndescend, snap, wwrites, bwrites, merges, reduction, caller>>

\* the scope has joined every worker: Ok(output)
ForwardJoin ==
    /\ op = "forward" /\ pc = "scope"
    /\ AllDone(FwdChunks, FwdOlen, FwdMults)
    /\ result' = Ok(output_shape, output)
    /\ pc' = "done"
    /\ UNCHANGED <<layer, params, op, args, spawned, wk, locals, ndescend, hist>>

(* ------------------------------- activate ------------------------------ *)
\* the output of forward_propagate(x, false) if that was the call before this one
Kept == IF trail.stage = 1 THEN {TensorNew(output_shape, trail.pre)} ELSE {}

\* mutant: the argument is compared with the layer's input shape
ActivateShapeOkInputRole(out) == ShapeEq(out.shape, input_shape)

ActivateShapeOk(out) == ShapeEq(out.shape, output_shape)

Activate ==
    /\ Enter("activate")
    /\ \E out \in Tensors \cup ({held} \ {NoTensor}) \cup Kept :
         /\ out_arg' = out
         /\ chained' = (out = held)
         /\ trail' = IF out \in Kept THEN trail ELSE NoTrail
         /\ IF ~ActivateShapeOk(out)
              THEN /\ result' = Err /\ pc' = "done"
                   /\ act_vec' = NoVec /\ pending' = {}
              ELSE /\ result' = NoResult /\ pc' = "par"
                   /\ act_vec' = Zeros(ShapeSize(out.shape))
                   \* act_vec.par_iter_mut().zip(output.flattened.par_iter())
                   /\ pending' = 0..(Zip(ShapeSize(out.shape), Len0(out.flattened)) - 1)
    /\ UNCHANGED <<params, input, delta, a_lst, activate, sigma_lst, rate, threads,
                   output, prod, live, lst_delta, ndescend>>
    /\ args0' = tensors'

\* mutant: the derivative is called instead of the activation
ActElemDiff(o) == ActDiff(activation, o)

\* *a = self.activation.call(*o)
ActElem(o) == ActCall(activation, o)

\* mutant: the activation is also written back into the argument
ActivateElemInPlace(i) ==
    /\ op = "activate" /\ pc = "par"
    /\ i \in pending
    /\ act_vec' = [act_vec EXCEPT ![i] = ActElem(out_arg.flattened[i])]
    /\ out_arg' = [out_arg EXCEPT !.flattened[i] = ActElem(out_arg.flattened[i])]
    /\ pending' = pending \ {i}
    /\ UNCHANGED <<layer, params, op, pc, input, delta, a_lst, activate, sigma_lst, rate,
                   threads, spawned, wk, output, prod, live, lst_delta, result, ndescend,
                   hist>>

ActivateElem(i) ==
    /\ op = "activate" /\ pc = "par"
    /\ i \in pending
    /\ act_vec' = [act_vec EXCEPT ![i] = ActElem(out_arg.flattened[i])]
    /\ pending' = pending \ {i}
    /\ UNCHANGED <<layer, params, op, pc, args, spawned, wk, output, prod, live,
                   lst_delta, result, ndescend, hist>>

\* Ok(Tensor::new(&self.output_shape, act_vec).unwrap())
ActivateDone ==
    /\ op = "activate" /\ pc = "par"
    /\ pending = {}
    /\ IF Len0(act_vec) = ShapeSize(output_shape)
         THEN /\ result' = Ok(output_shape, act_vec) /\ pc' = "done"
         ELSE /\ result' = NoResult /\ pc' = "panic"
    /\ UNCHANGED <<layer, params, op, args, spawned, wk, locals, ndescend, hist>>


(* -------------------------- backpropagate_delta ------------------------ *)
BackpropShapeOk(d, a) ==
    ShapeEq(d.shape, output_shape) /\ ShapeEq(a.shape, input_shape)

BackpropagateDelta ==
    /\ Enter("backprop")
    /\ \E d \in Tensors, a \in Tensors, sigma \in Activations :
         /\ delta' = d /\ a_lst' = a /\ sigma_lst' = sigma
         /\ trail' = NoTrail
         /\ IF ~BackpropShapeOk(d, a)
              THEN /\ result' = Err /\ pc' = "done"
                   /\ prod' = NoVec /\ threads' = 0
              ELSE /\ result' = NoResult /\ pc' = "scope"
                   /\ prod' = Zeros(Len0(weight))
                   /\ \E n \in 1..MaxThreads : threads' = n
    /\ UNCHANGED <<params, input, out_arg, activate, rate, output, act_vec, live,
                   lst_delta, pending, ndescend>>
    /\ args0' = tensors'

BpIlen == ShapeSize(input_shape)
BpDlen == Len0(delta.flattened)
BpMults == MultsPerChunk(BpDlen, threads)
\* w_chunks.zip(p_chunks).zip(d_chunks)
BpChunks ==
    Zip(Zip(NumChunks(Len0(weight), BpMults * BpIlen),
            NumChunks(Len0(prod), BpMults * BpIlen)),
        NumChunks(BpDlen, BpMults))

BackpropSpawn ==
    /\ op = "backprop" /\ pc = "scope"
    /\ spawned < BpChunks
    /\ SpawnWorker
    /\ UNCHANGED <<layer, params, op, pc, args, locals, result, ndescend, hist>>

BpInBounds(i, j) ==
    /\ (j + 1) * BpIlen <= ChunkLen(Len0(weight), BpMults * BpIlen, i)
    /\ (j + 1) * BpIlen <= ChunkLen(Len0(prod), BpMults * BpIlen, i)

\* mutant: the row is located inside the chunk but the chunk's offset is dropped
BpBaseNoOffset(i, j) == j * BpIlen

\* index in prod and weight of the first entry of row j of chunk i
BpBase(i, j) == i * BpMults * BpIlen + j * BpIlen

\* *p = w * d over row j of chunk i
BpRow(i, j) ==
    LET base == BpBase(i, j)
        d == delta.flattened[i * BpMults + j]
    IN [x \in DOMAIN prod |->
          IF x >= base /\ x < base + BpIlen THEN weight[x] * d ELSE prod[x]]

BackpropWorker(i) ==
    /\ op = "backprop" /\ pc = "scope"
    /\ i \in 0..(spawned - 1)
    /\ wk[i] < ChunkLen(BpDlen, BpMults, i)
    /\ IF BpInBounds(i, wk[i])
         THEN /\ prod' = BpRow(i, wk[i])
              /\ writers' = Record(writers, BpBase(i, wk[i])..(BpBase(i, wk[i]) + BpIlen - 1), i)
              /\ readers' = readers
              /\ wk' = [wk EXCEPT ![i] = wk[i] + 1]
              /\ pc' = pc
         ELSE /\ pc' = "panic"
              /\ UNCHANGED <<prod, wk, access>>
    /\ UNCHANGED <<layer, params, op, args, spawned, output, act_vec, live, lst_delta,
                   pending, result, ndescend, snap, wwrites, bwrites, merges, reduction, caller>>

RECURSIVE Iota(_)
Iota(n) == IF n = 0 THEN <<>> ELSE Append(Iota(n - 1), n - 1)

\* the scope has joined; prod.par_chunks_mut(ilen) yields the slices to reduce
BackpropJoin ==
    /\ op = "backprop" /\ pc = "scope"
    /\ AllDone(BpChunks, BpDlen, BpMults)
    /\ live' = Iota(NumChunks(Len0(prod), BpIlen))
    /\ prod0' = prod
    /\ pc' = "reduce"
    /\ UNCHANGED <<layer, params, op, args, spawned, wk, output, act_vec, prod,
                   lst_delta, pending, result, ndescend, snap, wwrites, bwrites,
                   merges, pairs, caller, access>>

SliceLen(s) == ChunkLen(Len0(prod), BpIlen, s)

\* mutant: the sum is stored in the right operand only
ReduceOpRightOnly(s1, s2) ==
    [x \in DOMAIN prod |->
       IF x >= s2 * BpIlen /\ x < s2 * BpIlen + SliceLen(s1)
         THEN prod[x - s2 * BpIlen + s1 * BpIlen] + prod[x]
       ELSE prod[x]]

\* the closure of reduce_with on slices s1 and s2: the sum goes to both, s1 is kept
ReduceOp(s1, s2) ==
    [x \in DOMAIN prod |->
       IF x >= s1 * BpIlen /\ x < s1 * BpIlen + SliceLen(s1)
         THEN prod[x] + prod[x - s1 * BpIlen + s2 * BpIlen]
       ELSE IF x >= s2 * BpIlen /\ x < s2 * BpIlen + SliceLen(s1)
         THEN prod[x - s2 * BpIlen + s1 * BpIlen] + prod[x]
       ELSE prod[x]]

\* one combination of two adjacent partial results of the reduction
Reduce(p) ==
    /\ op = "backprop" /\ pc = "reduce"
    /\ p \in 1..(Len(live) - 1)
    /\ IF SliceLen(live[p]) <= SliceLen(live[p + 1])
         THEN /\ prod' = ReduceOp(live[p], live[p + 1])
              /\ live' = [q \in 1..(Len(live) - 1) |->
                            IF q <= p THEN live[q] ELSE live[q + 1]]
              /\ merges' = Append(merges, p)
              /\ pairs' = Append(pairs, <<live[p], live[p + 1],
                                          IF p + 2 <= Len(live)
                                            THEN live[p + 2]
                                            ELSE NumChunks(Len0(prod), BpIlen)>>)
              /\ pc' = pc
         ELSE /\ pc' = "panic"
              /\ UNCHANGED <<prod, live, merges, pairs>>
    /\ UNCHANGED <<layer, params, op, args, spawned, wk, output, act_vec, lst_delta,
                   pending, result, ndescend, snap, wwrites, bwrites, prod0, caller,
                   access>>

\* sum_prod.to_vec()
SumProd(s) == [x \in 0..(SliceLen(s) - 1) |-> prod[s * BpIlen + x]]

\* .unwrap() of the reduction, lst_delta.flattened = sum_prod.to_vec()
ReduceDone ==
    /\ op = "backprop" /\ pc = "reduce"
    /\ Len(live) <= 1
    /\ IF Len(live) = 1
         THEN /\ lst_delta' = SumProd(live[1])
              /\ pending' = 0..(Zip(SliceLen(live[1]), Len0(a_lst.flattened)) - 1)
              /\ pc' = "chain"
         ELSE /\ pc' = "panic"
              /\ UNCHANGED <<lst_delta, pending>>
    /\ UNCHANGED <<layer, params, op, args, spawned, wk, output, act_vec, prod, live,
                   result, ndescend, hist>>

\* mutant: the derivative of the layer's own activation is used
ChainElemOwnActivation(d, a) == d * ActDiff(activation, a)

\* *d *= sigma_lst.diff(*a)
ChainElem(d, a) == d * ActDiff(sigma_lst, a)

Chain(k) ==
    /\ op = "backprop" /\ pc = "chain"
    /\ k \in pending
    /\ lst_delta' = [lst_delta EXCEPT ![k] = ChainElem(lst_delta[k], a_lst.flattened[k])]
    /\ pending' = pending \ {k}
    /\ UNCHANGED <<layer, params, op, pc, args, spawned, wk, output, act_vec, prod,
                   live, result, ndescend, hist>>

\* Ok(lst_delta)
BackpropDone ==
    /\ op = "backprop" /\ pc = "chain"
    /\ pending = {}
    /\ result' = Ok(input_shape, lst_delta)
    /\ pc' = "done"
    /\ UNCHANGED <<layer, params, op, args, spawned, wk, locals, ndescend, hist>>

(* -------------------------------- descend ------------------------------ *)
\* mutant: the a_lst check compares element counts instead of shapes
DescendShapeOkSizeOnly(d, a) ==
    ShapeEq(d.shape, output_shape) /\ ShapeSize(a.shape) = ShapeSize(input_shape)

DescendShapeOk(d, a) ==
    ShapeEq(d.shape, output_shape) /\ ShapeEq(a.shape, input_shape)

\* mutant: the first weight entry is written before the early return
DescendRejectLate ==
    /\ result' = Err /\ pc' = "done"
    /\ weight' = [weight EXCEPT ![0] = @ - 1]
    /\ UNCHANGED <<bias, ndescend, threads>>

\* return Err(ShapeMismatchError): nothing has been touched yet
DescendReject ==
    /\ result' = Err /\ pc' = "done"
    /\ UNCHANGED <<params, ndescend, threads>>

Descend ==
    /\ Enter("descend")
    /\ \E r \in Rates, d \in Tensors, a \in Tensors :
         /\ rate' = r /\ delta' = d /\ a_lst' = a
         /\ trail' = NoTrail
         /\ IF ~DescendShapeOk(d, a)
              THEN DescendReject
              ELSE /\ ndescend < MaxDescends
                   /\ ndescend' = ndescend + 1
                   /\ result' = NoResult /\ pc' = "scope"
                   /\ \E n \in 1..MaxThreads : threads' = n
                   /\ UNCHANGED params
    /\ UNCHANGED <<input, out_arg, activate, sigma_lst, locals>>
    /\ args0' = tensors'

DsDlen == Len0(delta.flattened)
DsAlen == Len0(a_lst.flattened)
DsMults == MultsPerChunk(DsDlen, threads)
\* mutant: the weight chunks are sized by the length of delta
DsWChunkByDlen == DsMults * DsDlen

\* w_chunks = self.weight.chunks_mut(d_per_chunk * alen)
DsWChunk == DsMults * DsAlen

\* d_chunks.zip(w_chunks)
DsChunks ==
    Zip(NumChunks(DsDlen, DsMults), NumChunks(Len0(weight), DsWChunk))

DescendSpawn ==
    /\ op = "descend" /\ pc = "scope"
    /\ spawned < DsChunks
    /\ SpawnWorker
    /\ UNCHANGED <<layer, params, op, pc, args, locals, result, ndescend, hist>>

DsInBounds(i, j) ==
    (j + 1) * DsAlen <= ChunkLen(Len0(weight), DsWChunk, i)

\* mutant: the row is located inside the chunk but the chunk's offset is dropped
DsBaseNoOffset(i, j) == j * DsAlen

\* index in weight of the first entry of row j of chunk i
DsBase(i, j) == i * DsWChunk + j * DsAlen

\* the entries of weight that row j of chunk i covers
DsRow(i, j) == {x \in DOMAIN weight : x >= DsBase(i, j) /\ x < DsBase(i, j) + DsAlen}

\* *w -= rate * *d * a_lst.flattened[k]
DsStep(w, d, a) == w - rate * d * a

DescendWorker(i) ==
    /\ op = "descend" /\ pc = "scope"
    /\ i \in 0..(spawned - 1)
    /\ wk[i] < ChunkLen(DsDlen, DsMults, i)
    /\ IF DsInBounds(i, wk[i])
         THEN LET row == DsRow(i, wk[i])
                  base == DsBase(i, wk[i])
                  d == delta.flattened[i * DsMults + wk[i]]
              IN /\ weight' = [x \in DOMAIN weight |->
                                 IF x \in row
                                   THEN DsStep(weight[x], d, a_lst.flattened[x - base])
                                   ELSE weight[x]]
                 /\ wwrites' = [x \in DOMAIN wwrites |->
                                  IF x \in row THEN wwrites[x] + 1 ELSE wwrites[x]]
                 /\ writers' = Record(writers, row, i)
                 /\ readers' = Record(readers, row, i)
                 /\ wk' = [wk EXCEPT ![i] = wk[i] + 1]
                 /\ pc' = pc
         ELSE /\ pc' = "panic"
              /\ UNCHANGED <<weight, wwrites, wk, access>>
    /\ UNCHANGED <<layer, bias, op, args, spawned, locals, result, ndescend,
                   snap, bwrites, merges, reduction, caller>>

\* the scope has joined; self.bias.par_iter_mut().zip(delta.flattened.par_iter())
DescendJoin ==
    /\ op = "descend" /\ pc = "scope"
    /\ AllDone(DsChunks, DsDlen, DsMults)
    /\ pending' = 0..(Zip(Len0(bias), DsDlen) - 1)
    /\ pc' = "bias"
    /\ UNCHANGED <<layer, params, op, args, spawned, wk, output, act_vec, prod, live,
                   lst_delta, result, ndescend, hist>>

\* *b -= rate * *d
BiasStep(b, d) == b - rate * d

BiasElem(j) ==
    /\ op = "descend" /\ pc = "bias"
    /\ j \in pending
    /\ bias' = [bias EXCEPT ![j] = BiasStep(bias[j], delta.flattened[j])]
    /\ bwrites' = [bwrites EXCEPT ![j] = bwrites[j] + 1]
    /\ pending' = pending \ {j}
    /\ UNCHANGED <<layer, weight, op, pc, args, spawned, wk, output, act_vec, prod,
                   live, lst_delta, result, ndescend, snap, wwrites, merges, reduction, caller,
                   access>>

\* Ok(())
DescendDone ==
    /\ op = "descend" /\ pc = "bias"
    /\ pending = {}
    /\ result' = Ok(<<>>, NoVec)
    /\ pc' = "done"
    /\ UNCHANGED <<layer, params, op, args, spawned, wk, locals, ndescend, hist>>

(* ----------------------------- specification --------------------------- *)
Next ==
    \/ ForwardPropagate
    \/ ForwardSpawn
    \/ \E i \in 0..(spawned - 1) : ForwardWorker(i)
    \/ ForwardJoin
    \/ Activate
    \/ \E i \in pending : ActivateElem(i)
    \/ ActivateDone
    \/ BackpropagateDelta
    \/ BackpropSpawn
    \/ \E i \in 0..(spawned - 1) : BackpropWorker(i)
    \/ BackpropJoin
    \/ \E p \in 1..(Len(live) - 1) : Reduce(p)
    \/ ReduceDone
    \/ \E k \in pending : Chain(k)
    \/ BackpropDone
    \/ Descend
    \/ DescendSpawn
    \/ \E i \in 0..(spawned - 1) : DescendWorker(i)
    \/ DescendJoin
    \/ \E j \in pending : BiasElem(j)
    \/ DescendDone
    \/ Return

Spec == Init /\ [][Next]_vars

\* a step of the call in progress: of the caller inside the call or of a worker
Step ==
    \/ ForwardSpawn
    \/ \E i \in 0..(spawned - 1) : ForwardWorker(i)
    \/ ForwardJoin
    \/ \E i \in pending : ActivateElem(i)
    \/ ActivateDone
    \/ BackpropSpawn
    \/ \E i \in 0..(spawned - 1) : BackpropWorker(i)
    \/ BackpropJoin
    \/ \E p \in 1..(Len(live) - 1) : Reduce(p)
    \/ ReduceDone
    \/ \E k \in pending : Chain(k)
    \/ BackpropDone
    \/ DescendSpawn
    \/ \E i \in 0..(spawned - 1) : DescendWorker(i)
    \/ DescendJoin
    \/ \E j \in pending : BiasElem(j)
    \/ DescendDone

\* the threads of a call are scheduled: a call that can take a step takes one
FairSpec == Spec /\ WF_vars(Step)


(* -------------------------------- claims ------------------------------- *)
\* some tensor argument of the call in progress has not the shape its role expects
ShapeWrong ==
    \/ op = "forward" /\ input.shape # input_shape
    \/ op = "activate" /\ out_arg.shape # output_shape
    \/ /\ op \in {"backprop", "descend"}
       /\ (delta.shape # output_shape \/ a_lst.shape # input_shape)

\* C1: a call with a tensor argument of the wrong shape (also one of equal
\* element count, also when only one of two arguments is wrong) returns
\* ShapeMismatch and leaves weight and bias as they were before the call.
C1_ShapeEnforcement ==
    ShapeWrong =>
        /\ pc = "done"
        /\ result = Err
        /\ weight = weight0 /\ bias = bias0

\* descend rejected for a_lst alone, whose shape has the right element count
C1_Witness ==
    /\ op = "descend" /\ pc = "done" /\ result = Err
    /\ delta.shape = output_shape
    /\ a_lst.shape # input_shape
    /\ ShapeSize(a_lst.shape) = ShapeSize(input_shape)

\* C2: when descend returns ShapeMismatch, no weight or bias entry has been
\* written during the call, no worker was spawned and the worker count was
\* not even queried.
C2_DescendNoPartialUpdate ==
    (op = "descend" /\ result = Err) =>
        /\ \A x \in DOMAIN wwrites : wwrites[x] = 0
        /\ \A j \in DOMAIN bwrites : bwrites[j] = 0
        /\ weight = weight0 /\ bias = bias0
        /\ spawned = 0 /\ threads = 0

\* a rejected descend on a layer that an earlier descend has already updated
C2_Witness ==
    /\ op = "descend" /\ pc = "done" /\ result = Err
    /\ ndescend = 1
    /\ weight # Ones(Len0(weight))


\* f[0] + ... + f[n - 1]
RECURSIVE SumTo(_, _)
SumTo(f, n) == IF n = 0 THEN 0 ELSE SumTo(f, n - 1) + f[n - 1]

\* bias[j] + sum over k of weight[j, k] * input[k]
PreAct(j) ==
    bias[j] + SumTo([k \in 0..(ilen - 1) |-> weight[j * ilen + k] * input.flattened[k]], ilen)

\* C3: for an input of the input shape forward_propagate returns a tensor of
\* the output shape with output[j] = bias[j] + sum_k weight[j*ilen+k]*input[k],
\* activated exactly when the activate flag is set, for every worker count and
\* every interleaving of the workers.
C3_ForwardCorrect ==
    (op = "forward" /\ input.shape = input_shape /\ pc = "done") =>
        /\ result.status = "Ok"
        /\ result.shape = output_shape
        /\ DOMAIN result.flattened = 0..(olen - 1)
        /\ \A j \in 0..(olen - 1) :
              result.flattened[j] =
                 IF activate THEN ActCall(activation, PreAct(j)) ELSE PreAct(j)

\* two workers, updated weights, and an output the activation changes
C3_Witness ==
    /\ op = "forward" /\ pc = "done" /\ result.status = "Ok"
    /\ spawned = 2 /\ olen = 3 /\ ndescend = 1
    /\ activate /\ activation = "Relu"
    /\ \E j \in 0..(olen - 1) : PreAct(j) < 0
    /\ \E j \in 0..(olen - 1) : PreAct(j) > 0

\* sum over j of weight[j, k] * delta[j]
WtDelta(k) ==
    SumTo([j \in 0..(olen - 1) |-> weight[j * ilen + k] * delta.flattened[j]], olen)

\* C4: for delta of the output shape and a_prev of the input shape
\* backpropagate_delta returns a tensor of the input shape with
\* prev_delta[k] = (sum_j weight[j*ilen+k]*delta[j]) * d(a_prev[k]), d the
\* derivative of the activation passed as argument, for every worker count
\* and every shape of the reduction tree.
C4_BackpropCorrect ==
    (op = "backprop" /\ delta.shape = output_shape /\ a_lst.shape = input_shape
        /\ pc = "done") =>
        /\ result.status = "Ok"
        /\ result.shape = input_shape
        /\ DOMAIN result.flattened = 0..(ilen - 1)
        /\ \A k \in 0..(ilen - 1) :
              result.flattened[k] = WtDelta(k) * ActDiff(sigma_lst, a_lst.flattened[k])

\* three slices reduced right pair first, two workers, an activation argument
\* that differs from the layer's own, on updated weights
C4_Witness ==
    /\ op = "backprop" /\ pc = "done" /\ result.status = "Ok"
    /\ olen = 3 /\ spawned = 2 /\ merges = <<2, 1>>
    /\ sigma_lst = "Relu" /\ activation = "No"
    /\ ndescend = 1
    /\ \E k \in 0..(ilen - 1) : a_lst.flattened[k] < 0 /\ WtDelta(k) # 0

\* C5: one successful descend leaves weight[j*ilen+k] = old - rate*delta[j]*a_prev[k]
\* and bias[j] = old - rate*delta[j], every weight and bias entry having been
\* written exactly once, for every worker count.
C5_DescendCorrect ==
    (op = "descend" /\ delta.shape = output_shape /\ a_lst.shape = input_shape
        /\ pc = "done") =>
        /\ result.status = "Ok"
        /\ DOMAIN weight = 0..(ilen * olen - 1)
        /\ DOMAIN bias = 0..(olen - 1)
        /\ \A j \in 0..(olen - 1) :
              /\ bias[j] = bias0[j] - rate * delta.flattened[j]
              /\ bwrites[j] = 1
              /\ \A k \in 0..(ilen - 1) :
                    /\ weight[j * ilen + k] =
                          weight0[j * ilen + k] - rate * delta.flattened[j] * a_lst.flattened[k]
                    /\ wwrites[j * ilen + k] = 1

\* a descend finished by two workers over three output units
C5_Witness ==
    /\ op = "descend" /\ pc = "done" /\ result.status = "Ok"
    /\ olen = 3 /\ spawned = 2 /\ ilen = 2
    /\ weight # weight0 /\ bias # bias0


\* C6: for a tensor of the output shape activate returns a new tensor of the
\* same shape whose element i is the layer's activation of element i of the
\* argument as it was passed; the argument tensor is left as it was passed.
C6_ActivateCorrect ==
    (op = "activate" /\ out_arg.shape = output_shape /\ pc = "done") =>
        /\ result.status = "Ok"
        /\ result.shape = args0[2].shape
        /\ DOMAIN result.flattened = DOMAIN args0[2].flattened
        /\ \A i \in DOMAIN args0[2].flattened :
              result.flattened[i] = ActCall(activation, args0[2].flattened[i])
        /\ out_arg = args0[2]

\* Relu applied to a tensor with entries of both signs, on updated weights
C6_Witness ==
    /\ op = "activate" /\ pc = "done" /\ result.status = "Ok"
    /\ activation = "Relu" /\ ndescend = 1
    /\ \E i \in DOMAIN out_arg.flattened : out_arg.flattened[i] < 0
    /\ \E i \in DOMAIN out_arg.flattened : out_arg.flattened[i] > 0
    /\ result.flattened # out_arg.flattened

\* what forward_propagate computes with one worker: one chunk, j ascending
Forward1 ==
    [j \in 0..(FwdOlen - 1) |-> FwdMultAt(MultsPerChunk(FwdOlen, 1), 0, j)]

\* what descend leaves with one worker: one chunk, rows and entries ascending
Descend1Weight ==
    [x \in DOMAIN weight0 |->
       DsStep(weight0[x], delta.flattened[x \div DsAlen], a_lst.flattened[x % DsAlen])]

Descend1Bias == [j \in DOMAIN bias0 |-> BiasStep(bias0[j], delta.flattened[j])]

\* slice 0 after one worker has filled prod and the slices were folded left to right
RECURSIVE FoldLeft(_, _)
FoldLeft(k, n) ==
    IF n = 1 THEN weight[k] * delta.flattened[0]
    ELSE FoldLeft(k, n - 1) + weight[(n - 1) * BpIlen + k] * delta.flattened[n - 1]

Backprop1 ==
    [k \in 0..(BpIlen - 1) |-> ChainElem(FoldLeft(k, BpDlen), a_lst.flattened[k])]

\* C7: the tensor forward_propagate returns, the weight and bias descend
\* leaves and (in exact arithmetic) the tensor backpropagate_delta returns are
\* those of the run with a single worker on the same layer state and
\* arguments, whatever the worker count and the interleaving.
C7_ParallelismInvariance ==
    (pc = "done" /\ result.status = "Ok") =>
        /\ op = "forward" => result.flattened = Forward1
        /\ op = "descend" => weight = Descend1Weight /\ bias = Descend1Bias
        /\ op = "backprop" => result.flattened = Backprop1

\* a forward pass done by two workers whose rows and biases differ, so that a
\* worker reading another worker's row or bias would change the result
C7_Witness ==
    /\ op = "forward" /\ pc = "done" /\ result.status = "Ok"
    /\ threads > 1 /\ spawned = 2
    /\ ndescend = 1
    /\ \E j \in 1..(olen - 1) : bias[j] # bias[0]
    /\ \E j \in 1..(olen - 1) : result.flattened[j] # result.flattened[0]

\* number of output indices in chunk i and of weight entries in chunk i
C8_Mults == olen \div threads + 1
C8_OutChunk(i) == Min(C8_Mults, olen - i * C8_Mults)
C8_WeightChunk(i) == Min(C8_Mults * ilen, ilen * olen - i * C8_Mults * ilen)

\* C8: once the shape check has passed no operation fails: every index a
\* spawned worker uses (bias index i*chunk+j, row range [j*ilen, (j+1)*ilen)
\* inside its weight or scratch chunk) is in bounds, and the reduction has at
\* least one slice to return.
C8_NoFailure ==
    /\ pc # "panic"
    /\ pc = "scope" =>
          \A i \in 0..(spawned - 1) : \A j \in 0..(C8_OutChunk(i) - 1) :
              /\ i * C8_Mults + j \in DOMAIN bias
              /\ (j + 1) * ilen <= C8_WeightChunk(i)
              /\ \A k \in 0..(ilen - 1) :
                    /\ i * C8_Mults * ilen + j * ilen + k \in DOMAIN weight
                    /\ op = "backprop" =>
                          i * C8_Mults * ilen + j * ilen + k \in DOMAIN prod
    /\ pc = "scope" => \A i \in 0..(spawned - 1) : wk[i] <= C8_OutChunk(i)
    /\ pc = "reduce" => Len(live) >= 1 /\ \A q \in 1..Len(live) : SliceLen(live[q]) = ilen

\* the second worker of a forward pass is in its chunk, the first has used
\* the second row of its own
C8_Witness ==
    /\ op = "forward" /\ pc = "scope"
    /\ spawned = 2 /\ wk[0] = 2 /\ wk[1] = 1
    /\ ilen = 3

\* C9: weight and bias change only in steps of descend, and no step of an
\* operation changes a tensor that was passed to it.
C9_OnlyDescendMutates ==
    [][/\ op # "descend" => (weight' = weight /\ bias' = bias)
       /\ (op # "idle" /\ op' # "idle") => tensors' = tensors]_vars

\* a backward pass has run to its end on updated weights and left them alone
C9_Witness ==
    /\ op = "backprop" /\ pc = "done" /\ result.status = "Ok"
    /\ ndescend = 1 /\ weight # Ones(Len0(weight))
    /\ weight = weight0 /\ bias = bias0 /\ tensors = args0

\* C10: in every reachable state weight has input_size * output_size entries,
\* bias has output_size entries, and the shapes and the activation are those
\* the layer was constructed with.
C10_LayerInvariant ==
    /\ DOMAIN weight = 0..(ShapeSize(input_shape) * ShapeSize(output_shape) - 1)
    /\ DOMAIN bias = 0..(ShapeSize(output_shape) - 1)
    /\ layer = layer0

\* a call is in progress after the layer has been updated by descend
C10_Witness ==
    /\ ndescend = 1 /\ op = "forward" /\ pc = "scope"
    /\ weight # Ones(Len0(weight)) /\ bias # Ones(Len0(bias))
    /\ ilen # olen


\* C11 as stated: activate on the result of activate succeeds and its result
\* differs from the result of the single application.
C11_TwiceDiffers ==
    (op = "activate" /\ chained /\ pc = "done") =>
        /\ result.status = "Ok"
        /\ result.flattened # out_arg.flattened

\* C11 as amended: activate on the result of activate succeeds and returns the
\* activation of each element of the already activated tensor; for the
\* identity and ReLU activations that is the result of the single application.
C11_TwiceWellDefined ==
    (op = "activate" /\ chained) =>
        /\ pc \in {"par", "done"}
        /\ pc = "done" =>
              /\ result.status = "Ok"
              /\ result.shape = out_arg.shape
              /\ \A i \in DOMAIN out_arg.flattened :
                    result.flattened[i] = ActCall(activation, out_arg.flattened[i])
              /\ activation \in {"No", "Relu"} => result.flattened = out_arg.flattened

\* ReLU applied to the result of ReLU, which holds a 0 the first call produced
C11_Witness ==
    /\ op = "activate" /\ chained /\ pc = "done" /\ result.status = "Ok"
    /\ activation = "Relu"
    /\ \E i \in DOMAIN out_arg.flattened : out_arg.flattened[i] = 0
    /\ input_shape # output_shape


\* ceil(output_size / worker_count)
C12_Ceil == (olen + threads - 1) \div threads

\* C12: at the join of forward_propagate, backpropagate_delta and descend the
\* output indices have been split into chunks of ceil(output_size /
\* worker_count) indices, the last one possibly shorter: worker i has done
\* the indices from i * ceil on, and there are as many workers as such chunks.
C12_CeilChunks ==
    [][(pc = "scope" /\ pc' \in {"done", "reduce", "bias"}) =>
          /\ spawned = NumChunks(olen, C12_Ceil)
          /\ \A i \in 0..(spawned - 1) : wk[i] = Min(C12_Ceil, olen - i * C12_Ceil)]_vars


\* C13: within the fork-join round of forward_propagate, backpropagate_delta
\* (step 1) or descend no entry of the output, scratch or weight buffer is
\* written by two workers, and no entry one worker writes is read by another.
C13_NoDataRace ==
    \A x \in DOMAIN writers :
        /\ Cardinality(writers[x]) <= 1
        /\ writers[x] # {} => readers[x] \subseteq writers[x]

\* two workers of descend have each updated a row of weight
C13_Witness ==
    /\ op = "descend" /\ pc = "scope" /\ spawned = 2
    /\ \E x \in DOMAIN writers : writers[x] = {0} /\ readers[x] = {0}
    /\ \E x \in DOMAIN writers : writers[x] = {1} /\ readers[x] = {1}


\* chunk size of the output-side buffer and number of its chunks
C14_Mults == olen \div threads + 1
C14_Chunks == NumChunks(olen, C14_Mults)

\* C14: the zipped buffers are partitioned in lockstep: they yield the same
\* number of chunks, chunk i of weight (and of the scratch buffer) holds
\* exactly the rows of the output indices of chunk i, after the join every
\* entry of the written buffer has been written by the worker of its own
\* chunk (no index dropped by the zip), and at most worker-count workers are
\* spawned.
C14_Lockstep ==
    /\ pc = "scope" =>
          /\ NumChunks(Len0(weight), C14_Mults * ilen) = C14_Chunks
          /\ op = "backprop" => NumChunks(Len0(prod), C14_Mults * ilen) = C14_Chunks
          /\ \A i \in 0..(C14_Chunks - 1) :
                ChunkLen(Len0(weight), C14_Mults * ilen, i)
                   = ilen * ChunkLen(olen, C14_Mults, i)
          /\ spawned <= C14_Chunks
          /\ C14_Chunks <= threads
    /\ (op \in {"forward", "backprop", "descend"} /\ result # Err
           /\ pc \in {"done", "reduce", "chain", "bias"}) =>
          /\ spawned = C14_Chunks
          /\ spawned <= threads
          /\ op = "forward" =>
                /\ DOMAIN writers = 0..(olen - 1)
                /\ \A x \in DOMAIN writers : writers[x] = {x \div C14_Mults}
          /\ op # "forward" =>
                /\ DOMAIN writers = 0..(ilen * olen - 1)
                /\ \A x \in DOMAIN writers : writers[x] = {(x \div ilen) \div C14_Mults}

\* descend has joined two workers; the second chunk is the shorter one and
\* the rows are not as long as delta
C14_Witness ==
    /\ op = "descend" /\ pc = "bias"
    /\ spawned = 2 /\ wk[0] = 2 /\ wk[1] = 1
    /\ ilen # olen


\* every worker of the call has been spawned and has run to its end
C15_WorkersComplete ==
    /\ spawned = C14_Chunks
    /\ \A i \in 0..(spawned - 1) : wk[i] = C8_OutChunk(i)

\* C15: no operation returns before all of its workers have completed: when
\* forward_propagate, backpropagate_delta or descend has returned a result,
\* every worker spawned in the call has finished; the reduction of
\* backpropagate_delta (and everything after it) and the bias update of
\* descend run only when every worker of the round has finished, and while
\* workers are still running no reduction step and no bias write has been made.
C15_JoinBeforeReturn ==
    /\ (op \in {"forward", "backprop", "descend"} /\ pc = "done" /\ result # Err)
          => C15_WorkersComplete
    /\ (op = "backprop" /\ pc \in {"reduce", "chain"}) => C15_WorkersComplete
    /\ (op = "descend" /\ pc = "bias") => C15_WorkersComplete
    /\ (op = "backprop" /\ pc = "scope") => merges = <<>>
    /\ (op = "descend" /\ pc = "scope") => \A j \in DOMAIN bwrites : bwrites[j] = 0

\* backpropagate_delta has returned after two workers and two reduction steps
C15_Witness ==
    /\ op = "backprop" /\ pc = "done" /\ result.status = "Ok"
    /\ spawned = 2 /\ Len(merges) = 2


\* sum over the slices j in [from, to) of scratch[j * input_size + k]
RECURSIVE C16_SliceSum(_, _, _)
C16_SliceSum(from, to, k) ==
    IF from >= to THEN 0
    ELSE prod0[from * ilen + k] + C16_SliceSum(from + 1, to, k)

\* the slice after the one that live[q] stands for
C16_End(q) == IF q < Len(live) THEN live[q + 1] ELSE olen

C17_Terminates ==
    /\ []((op # "idle" /\ pc # "done") => ENABLED Step)
    /\ (op # "idle") ~> (pc = "done" /\ result.status \in {"Ok", "ShapeMismatchError"})

\* descend has returned after two workers and the bias update
C17_Witness ==
    /\ op = "descend" /\ pc = "done" /\ result.status = "Ok"
    /\ spawned = 2 /\ threads = 3 /\ pending = {}


\* C18: forward_propagate(x, true) equals activate(forward_propagate(x, false)):
\* when the caller has computed the pre-activation output of x, then the
\* standalone activation of it, and then calls forward_propagate(x, true) on
\* the same layer, that call returns the tensor activate returned.
C18_ForwardActivate ==
    (op = "forward" /\ pc = "done" /\ trail.stage = 2) =>
        /\ input = trail.input /\ activate
        /\ weight = weight0 /\ bias = bias0
        /\ result.status = "Ok"
        /\ result.shape = output_shape
        /\ result.flattened = trail.post

\* the three calls are done with two workers on descended weights, and the
\* activation has changed a negative pre-activation value
C18_Witness ==
    /\ op = "forward" /\ pc = "done" /\ trail.stage = 2
    /\ activation = "Relu" /\ ndescend = 1 /\ spawned = 2
    /\ \E j \in DOMAIN trail.pre : trail.pre[j] < 0 /\ trail.post[j] = 0
    /\ \E j \in DOMAIN trail.pre : trail.pre[j] > 0

=============================================================================
